---- MODULE Spec2Model ----
(***************************************************************************)
(* Usage scanner of electrumsv/blockchain_scanner.py: the candidate-key   *)
(* enumerator (SearchKeyEnumerator, gap-limit derivation), the completion *)
(* callback of ScriptHashHandler and the orchestration loop of            *)
(* BlockchainScanner.scan_for_usage.                                       *)
(*                                                                         *)
(* The loop body and every completion callback run on one cooperative     *)
(* scheduler: one action is the code between two suspension points.       *)
(* The only suspension point of scan_for_usage is `await event.wait()`.   *)
(***************************************************************************)
EXTENDS Integers, Sequences, FiniteSets, TLC

(***************************************************************************)
(* Bounds of the model.                                                    *)
(***************************************************************************)
\* Window target. The source sets 100 (blockchain_scanner.py:54); the model
\* runs the same loop against a small window.
MINIMUM_ACTIVE_SUBSCRIPTIONS == 2
\* Gap limit of the receiving subpath as AdvancedSettings overrides it; the
\* change subpath gets one less. The source defaults are 50 and 20
\* (blockchain_scanner.py:57-60).
GapLimit == 2
\* At most this many script hashes are found to have a non-empty history,
\* none of them beyond child index MaxUsedIndex.
MaxHits == 2
MaxUsedIndex == MaxHits - 1
\* How many completions the transport still delivers after remove_owner
\* (callbacks that were already scheduled when the owner was removed).
MaxLateDeliveries == 1
\* ScriptHashHandler.shutdown is not run again once it has run this often.
MaxHandlerShutdowns == 2

RECEIVING_SUBPATH == "receiving"
CHANGE_SUBPATH == "change"
Subpaths == {CHANGE_SUBPATH, RECEIVING_SUBPATH}

\* AdvancedSettings.gap_limits after __post_init__.
gap_limits == [s \in Subpaths |->
                 IF s = RECEIVING_SUBPATH THEN GapLimit ELSE GapLimit - 1]

\* The account shapes add_bip32_subpath is called for: a single-signer account
\* (one key, one script type) and a 2-of-2 multi-signer account (two script types).
AccountShapes ==
    { [threshold |-> 1, nkeys |-> 1, script_types |-> <<"P2PKH">>],
      [threshold |-> 2, nkeys |-> 2, script_types |-> <<"MULTISIG_BARE", "MULTISIG_P2SH">>] }

\* ElectrumXHistoryList values: the empty history and a history with one entry.
EmptyHistory == <<>>
UsedHistory == <<"tx">>
Histories == {EmptyHistory, UsedHistory}

\* The item hashes the caller hands to add_explicit_item, duplicates
\* included; the pending pool never holds more than MaxExplicitItems.
MaxExplicitItems == 3
ExplicitHashes == { <<0, 1, "P2PKH", 0>>, <<0, 2, "P2PKH", 0>> }

None == 0

VARIABLES
    pending_subscriptions,   \* SearchKeyEnumerator._pending_subscriptions
    bip32_paths,             \* SearchKeyEnumerator._bip32_paths
    active_subscriptions,    \* BlockchainScanner._active_subscriptions
    scan_entry_count,        \* BlockchainScanner._scan_entry_count
    event,                   \* BlockchainScanner._event (set or clear)
    should_exit,             \* BlockchainScanner._should_exit
    handler_scanner,         \* ScriptHashHandler has its _scanner attribute
    handler_shutdowns,       \* executions of ScriptHashHandler.shutdown
    results,                 \* ScriptHashHandler._results
    subscriptions,           \* the transport: tokens watched for this owner
    raised,                  \* exceptions other than SubscriptionStale raised so far
    pc,                      \* position of the scan_for_usage coroutine
    exit_reason,             \* which way scan_for_usage left its loop
    resumed,                 \* paths a completion has brought back from exhaustion
    late_deliveries,         \* completions delivered after remove_owner
    extend_range_cb_calls,   \* invocations of BlockchainScanner._extend_range_cb
    extend_range_cb_value,   \* the value last passed to _extend_range_cb
    required_entries,        \* argument of the last direct create_new_entries call
    new_entries,             \* list returned by the last direct create_new_entries call
    is_done_calls            \* what the direct is_done() calls returned since the
                             \* enumerator last changed

vars == << pending_subscriptions, bip32_paths, active_subscriptions, scan_entry_count,
           event, should_exit, handler_scanner, handler_shutdowns, results,
           subscriptions, raised, pc, exit_reason, resumed, late_deliveries,
           extend_range_cb_calls, extend_range_cb_value, required_entries, new_entries,
           is_done_calls >>

Max(a, b) == IF a > b THEN a ELSE b
Min(a, b) == IF a < b THEN a ELSE b

\* Sequence s without its first n elements (del s[:n]).
DropFirst(s, n) == SubSeq(s, n + 1, Len(s))

\* The function f without key k (del f[k]).
Without(f, k) == [x \in DOMAIN f \ {k} |-> f[x]]

\* The function f with key k set to v (f[k] = v).
With(f, k, v) == [x \in DOMAIN f \cup {k} |-> IF x = k THEN v ELSE f[x]]

(***************************************************************************)
(* Data                                                                    *)
(***************************************************************************)
BIP32ParentPath(subpath, threshold, nkeys, script_types) ==
    [ subpath |-> subpath, threshold |-> threshold, nkeys |-> nkeys,
      script_types |-> script_types,
      last_index |-> -1, result_count |-> 0, highest_used_index |-> -1 ]

SearchEntry(kind, keyinstance_id, script_type, item_hash, parent_path, parent_index) ==
    [ kind |-> kind, keyinstance_id |-> keyinstance_id, script_type |-> script_type,
      item_hash |-> item_hash, parent_path |-> parent_path, parent_index |-> parent_index ]

ScriptHashHistory(history, bip32_subpath, bip32_subpath_index) ==
    [ history |-> history, bip32_subpath |-> bip32_subpath,
      bip32_subpath_index |-> bip32_subpath_index ]

\* The child keys of parent path number p at child index i (child_safe of
\* every parent public key): the path is identified by its position, two
\* registered paths hold different keys.
ChildKeys(p, parent_path, i) == [ path |-> p, index |-> i, count |-> parent_path.nkeys ]

\* ScriptHasher.get_item_hash_for_public_keys: the hash of the script built
\* from the script type and the keys, and from the threshold when there is
\* more than one key; injective on what the script is built from.
get_item_hash_for_public_keys(script_type, public_keys, threshold) ==
    << public_keys.path, public_keys.index, script_type,
       IF public_keys.count = 1 THEN 0 ELSE threshold >>

(***************************************************************************)
(* SearchKeyEnumerator                                                     *)
(***************************************************************************)
_get_bip32_path_count_off_by_one(parent_path) ==
    LET gap_limit == gap_limits[parent_path.subpath]
        key_count == parent_path.last_index + 1
    IN  IF parent_path.highest_used_index > -1
        THEN gap_limit - (parent_path.last_index - parent_path.highest_used_index)
        ELSE gap_limit - key_count + 1

_get_bip32_path_count_wide(parent_path) ==
    LET gap_limit == gap_limits[parent_path.subpath]
        key_count == parent_path.last_index + 1
    IN  IF parent_path.highest_used_index > -1
        THEN gap_limit - (parent_path.last_index - parent_path.highest_used_index) + 1
        ELSE gap_limit - key_count

_get_bip32_path_count(parent_path) ==
    LET gap_limit == gap_limits[parent_path.subpath]
        key_count == parent_path.last_index + 1
    IN  IF parent_path.highest_used_index > -1
        THEN gap_limit - (parent_path.last_index - parent_path.highest_used_index)
        ELSE gap_limit - key_count

is_done_ignoring_pending(paths, pending) ==
    \A i \in 1..Len(paths) : _get_bip32_path_count(paths[i]) = 0

has_sources_pool_only(paths, pending) == Len(pending) > 0

has_sources(paths, pending) == Len(paths) > 0 \/ Len(pending) > 0

is_done(paths, pending) ==
    /\ Len(pending) = 0
    /\ \A i \in 1..Len(paths) : _get_bip32_path_count(paths[i]) = 0

DerivationStep_skipping_index(p, parent_path) ==
    LET current_index == parent_path.last_index + 2
        public_keys == ChildKeys(p, parent_path, current_index)
    IN  [ n \in 1..Len(parent_path.script_types) |->
            SearchEntry("BIP32", None, parent_path.script_types[n],
                get_item_hash_for_public_keys(parent_path.script_types[n], public_keys, 1),
                p, current_index) ]

DerivationStep_first_type_only(p, parent_path) ==
    LET current_index == parent_path.last_index + 1
        public_keys == ChildKeys(p, parent_path, current_index)
    IN  << SearchEntry("BIP32", None, parent_path.script_types[1],
               get_item_hash_for_public_keys(parent_path.script_types[1], public_keys, 1),
               p, current_index) >>

\* One derivation step of path number p: one entry per script type.
DerivationStep(p, parent_path) ==
    LET current_index == parent_path.last_index + 1
        public_keys == ChildKeys(p, parent_path, current_index)
    IN  [ n \in 1..Len(parent_path.script_types) |->
            SearchEntry("BIP32", None, parent_path.script_types[n],
                get_item_hash_for_public_keys(parent_path.script_types[n], public_keys, 1),
                p, current_index) ]

RECURSIVE _obtain_entries_from_bip32_path_unit_cost(_, _, _, _)
_obtain_entries_from_bip32_path_unit_cost(maximum_candidates, p, parent_path, acc) ==
    IF maximum_candidates > 0 /\ _get_bip32_path_count(parent_path) > 0
    THEN _obtain_entries_from_bip32_path_unit_cost(
            maximum_candidates - 1, p,
            [parent_path EXCEPT !.last_index = parent_path.last_index + 1],
            acc \o DerivationStep(p, parent_path))
    ELSE [ entries |-> acc, path |-> parent_path ]

RECURSIVE _obtain_entries_from_bip32_path_budget_checked_once(_, _, _, _)
_obtain_entries_from_bip32_path_budget_checked_once(maximum_candidates, p, parent_path, acc) ==
    IF maximum_candidates > 0 /\ (acc # <<>> \/ _get_bip32_path_count(parent_path) > 0)
    THEN _obtain_entries_from_bip32_path_budget_checked_once(
            maximum_candidates - Len(parent_path.script_types), p,
            [parent_path EXCEPT !.last_index = parent_path.last_index + 1],
            acc \o DerivationStep(p, parent_path))
    ELSE [ entries |-> acc, path |-> parent_path ]

RECURSIVE _obtain_entries_from_bip32_path_index_per_entry(_, _, _, _)
_obtain_entries_from_bip32_path_index_per_entry(maximum_candidates, p, parent_path, acc) ==
    IF maximum_candidates > 0 /\ _get_bip32_path_count(parent_path) > 0
    THEN _obtain_entries_from_bip32_path_index_per_entry(
            maximum_candidates - Len(parent_path.script_types), p,
            [parent_path EXCEPT !.last_index =
                parent_path.last_index + Len(parent_path.script_types)],
            acc \o DerivationStep(p, parent_path))
    ELSE [ entries |-> acc, path |-> parent_path ]

RECURSIVE _obtain_entries_from_bip32_path(_, _, _, _)
\* Returns the new entries and the path as the loop leaves it.
_obtain_entries_from_bip32_path(maximum_candidates, p, parent_path, acc) ==
    IF maximum_candidates > 0 /\ _get_bip32_path_count(parent_path) > 0
    THEN _obtain_entries_from_bip32_path(
            maximum_candidates - Len(parent_path.script_types), p,
            [parent_path EXCEPT !.last_index = parent_path.last_index + 1],
            acc \o DerivationStep(p, parent_path))
    ELSE [ entries |-> acc, path |-> parent_path ]

RECURSIVE _obtain_any_bip32_entries_last_first(_, _, _, _)
_obtain_any_bip32_entries_last_first(maximum_candidates, parent_path_index, paths, acc) ==
    IF maximum_candidates > 0 /\ parent_path_index <= Len(paths)
    THEN LET visited == Len(paths) + 1 - parent_path_index
             r == _obtain_entries_from_bip32_path(maximum_candidates,
                      visited, paths[visited], <<>>)
         IN  _obtain_any_bip32_entries_last_first(
                maximum_candidates - Len(r.entries), parent_path_index + 1,
                [paths EXCEPT ![visited] = r.path],
                acc \o r.entries)
    ELSE [ entries |-> acc, paths |-> paths ]

RECURSIVE _obtain_any_bip32_entries(_, _, _, _)
\* Returns the new entries and the paths as the loop leaves them.
_obtain_any_bip32_entries(maximum_candidates, parent_path_index, paths, acc) ==
    IF maximum_candidates > 0 /\ parent_path_index <= Len(paths)
    THEN LET r == _obtain_entries_from_bip32_path(maximum_candidates,
                      parent_path_index, paths[parent_path_index], <<>>)
         IN  _obtain_any_bip32_entries(
                maximum_candidates - Len(r.entries), parent_path_index + 1,
                [paths EXCEPT ![parent_path_index] = r.path],
                acc \o r.entries)
    ELSE [ entries |-> acc, paths |-> paths ]

create_new_entries_newest_first(required, pending, paths) ==
    LET how_many == IF required > 0 /\ Len(pending) > 0
                    THEN Min(required, Len(pending)) ELSE 0
        explicit == SubSeq(pending, Len(pending) - how_many + 1, Len(pending))
        r == _obtain_any_bip32_entries(required - how_many, 1, paths, <<>>)
    IN  [ entries |-> explicit \o r.entries,
          pending |-> SubSeq(pending, 1, Len(pending) - how_many),
          paths |-> r.paths ]

create_new_entries_undiminished(required, pending, paths) ==
    LET how_many == IF required > 0 /\ Len(pending) > 0
                    THEN Min(required, Len(pending)) ELSE 0
        explicit == SubSeq(pending, 1, how_many)
        r == _obtain_any_bip32_entries(required, 1, paths, <<>>)
    IN  [ entries |-> explicit \o r.entries,
          pending |-> DropFirst(pending, how_many),
          paths |-> r.paths ]

\* Returns the new entries, the pending pool and the paths after the call.
create_new_entries(required, pending, paths) ==
    LET how_many == IF required > 0 /\ Len(pending) > 0
                    THEN Min(required, Len(pending)) ELSE 0
        explicit == SubSeq(pending, 1, how_many)
        r == _obtain_any_bip32_entries(required - how_many, 1, paths, <<>>)
    IN  [ entries |-> explicit \o r.entries,
          pending |-> DropFirst(pending, how_many),
          paths |-> r.paths ]

(***************************************************************************)
(* Setup, before the scan starts                                           *)
(***************************************************************************)
add_explicit_item_default_kind(keyinstance_id, script_type, item_hash) ==
    /\ pc = "setup"
    /\ Len(pending_subscriptions) < MaxExplicitItems
    /\ pending_subscriptions' = Append(pending_subscriptions,
            SearchEntry("NONE", keyinstance_id, script_type, item_hash, None, -1))
    /\ UNCHANGED << bip32_paths, active_subscriptions, scan_entry_count, event,
                    should_exit, handler_scanner, handler_shutdowns, results,
                    subscriptions, raised, pc, exit_reason, resumed,
                    late_deliveries, extend_range_cb_calls, extend_range_cb_value,
                    required_entries, new_entries >>
    /\ is_done_calls' = <<>>

add_explicit_item(keyinstance_id, script_type, item_hash) ==
    /\ pc = "setup"
    /\ Len(pending_subscriptions) < MaxExplicitItems
    /\ pending_subscriptions' = Append(pending_subscriptions,
            SearchEntry("EXPLICIT", keyinstance_id, script_type, item_hash, None, -1))
    /\ UNCHANGED << bip32_paths, active_subscriptions, scan_entry_count, event,
                    should_exit, handler_scanner, handler_shutdowns, results,
                    subscriptions, raised, pc, exit_reason, resumed,
                    late_deliveries, extend_range_cb_calls, extend_range_cb_value,
                    required_entries, new_entries >>
    /\ is_done_calls' = <<>>

add_bip32_subpath(subpath, nkeys, threshold, script_types) ==
    /\ pc = "setup"
    \* One parent path per subpath of the account.
    /\ \A i \in 1..Len(bip32_paths) : bip32_paths[i].subpath # subpath
    /\ bip32_paths' = Append(bip32_paths,
            BIP32ParentPath(subpath, threshold, nkeys, script_types))
    /\ UNCHANGED << pending_subscriptions, active_subscriptions, scan_entry_count, event,
                    should_exit, handler_scanner, handler_shutdowns, results,
                    subscriptions, raised, pc, exit_reason, resumed,
                    late_deliveries, extend_range_cb_calls, extend_range_cb_value,
                    required_entries, new_entries >>
    /\ is_done_calls' = <<>>

(***************************************************************************)
(* Shutdown                                                                *)
(***************************************************************************)
\* ScriptHashHandler.shutdown: remove_owner, then `del self._scanner`, which
\* raises AttributeError when the attribute is already gone.
HandlerShutdown ==
    /\ handler_shutdowns' = handler_shutdowns + 1
    /\ IF handler_scanner
       THEN handler_scanner' = FALSE /\ UNCHANGED raised
       ELSE raised' = raised \cup {"AttributeError"} /\ UNCHANGED handler_scanner

shutdown_unguarded ==
    /\ should_exit' = TRUE
    /\ HandlerShutdown

\* BlockchainScanner.shutdown
shutdown ==
    IF should_exit
    THEN UNCHANGED << should_exit, handler_scanner, handler_shutdowns, raised >>
    ELSE /\ should_exit' = TRUE
         /\ HandlerShutdown

\* shutdown() invoked by an external context.
ShutdownCall ==
    /\ handler_shutdowns < MaxHandlerShutdowns
    /\ shutdown
    /\ UNCHANGED << pending_subscriptions, bip32_paths, active_subscriptions,
                    scan_entry_count, event, results, subscriptions, pc, exit_reason,
                    resumed, late_deliveries, extend_range_cb_calls,
                    extend_range_cb_value, required_entries, new_entries,
                    is_done_calls >>

(***************************************************************************)
(* The transport (network.subscriptions), as the scanner uses it            *)
(***************************************************************************)
\* The entry of the batch that is stored last under hash h.
LastWithHash(entries, h) ==
    entries[CHOOSE i \in 1..Len(entries) :
                /\ entries[i].item_hash = h
                /\ \A j \in (i + 1)..Len(entries) : entries[j].item_hash # h]

HashesOf(entries) == { entries[i].item_hash : i \in 1..Len(entries) }

\* `for entry in entries: d[entry.item_hash] = entry`
StoreByHash(d, entries) ==
    [ h \in DOMAIN d \cup HashesOf(entries) |->
        IF h \in HashesOf(entries) THEN LastWithHash(entries, h) ELSE d[h] ]

\* register_pending_entries(wrap_search_entry(entry) for each entry): the
\* transport watches each subscription key for this owner, with the entry as
\* the owner context of the key.
register_pending_entries(watched, entries) == StoreByHash(watched, entries)

(***************************************************************************)
(* BlockchainScanner.scan_for_usage                                        *)
(***************************************************************************)
ActiveCount == Cardinality(DOMAIN active_subscriptions)

\* The loop is left: `self.shutdown()` follows without a suspension point.
ExitLoop(reason) ==
    /\ pc' = "done"
    /\ exit_reason' = reason
    /\ shutdown
    /\ UNCHANGED << pending_subscriptions, bip32_paths, active_subscriptions,
                    scan_entry_count, results, subscriptions, resumed,
                    late_deliveries, extend_range_cb_calls, extend_range_cb_value,
                    required_entries, new_entries, is_done_calls >>

ManualInterruption_ignored == FALSE

\* `if self._should_exit: break`
ManualInterruption == should_exit

NaturalExhaustion_ignoring_active(paths, pending) == is_done(paths, pending)

\* `elif len(self._active_subscriptions) == 0: if self._enumerator.is_done(): break`
NaturalExhaustion(paths, pending) ==
    /\ ActiveCount = 0
    /\ is_done(paths, pending)

_extend_range_batch_size(number) ==
    /\ scan_entry_count' = scan_entry_count + number
    /\ extend_range_cb_calls' = extend_range_cb_calls + 1
    /\ extend_range_cb_value' = number

_extend_range_per_batch(number) ==
    /\ scan_entry_count' = scan_entry_count + 1
    /\ extend_range_cb_calls' = extend_range_cb_calls + 1
    /\ extend_range_cb_value' = scan_entry_count + 1

\* `self._scan_entry_count += number`, then the callback gets the new count.
_extend_range(number) ==
    /\ scan_entry_count' = scan_entry_count + number
    /\ extend_range_cb_calls' = extend_range_cb_calls + 1
    /\ extend_range_cb_value' = scan_entry_count + number

\* The code from the `while` test to the next `await self._event.wait()`,
\* or to the end of scan_for_usage.
LoopIteration ==
    IF ~ (ActiveCount > 0 \/ has_sources(bip32_paths, pending_subscriptions))
    THEN ExitLoop("no_sources")
    ELSE IF ManualInterruption
    THEN ExitLoop("manual")
    ELSE LET required == MINIMUM_ACTIVE_SUBSCRIPTIONS - ActiveCount
             r == create_new_entries(required, pending_subscriptions, bip32_paths)
         IN  /\ pending_subscriptions' = r.pending
             /\ bip32_paths' = r.paths
             /\ UNCHANGED << results, resumed, late_deliveries, required_entries,
                             new_entries, is_done_calls >>
             /\ IF Len(r.entries) > 0
                THEN /\ _extend_range(Len(r.entries))
                     /\ active_subscriptions' = StoreByHash(active_subscriptions, r.entries)
                     /\ subscriptions' = register_pending_entries(subscriptions, r.entries)
                     /\ pc' = "wait"
                     /\ UNCHANGED << should_exit, handler_scanner, handler_shutdowns,
                                     raised, exit_reason >>
                ELSE IF NaturalExhaustion(r.paths, r.pending)
                THEN /\ pc' = "done"
                     /\ exit_reason' = "exhausted"
                     /\ shutdown
                     /\ UNCHANGED << active_subscriptions, scan_entry_count, subscriptions,
                                     extend_range_cb_calls, extend_range_cb_value >>
                ELSE /\ pc' = "wait"
                     /\ UNCHANGED << active_subscriptions, scan_entry_count, subscriptions,
                                     extend_range_cb_calls, extend_range_cb_value,
                                     should_exit, handler_scanner, handler_shutdowns,
                                     raised, exit_reason >>

\* The coroutine started by start_scanning_for_usage runs up to its first wait.
StartScan ==
    /\ pc = "setup"
    /\ LoopIteration
    /\ UNCHANGED event

\* `await self._event.wait()` returns, `self._event.clear()`, next iteration.
Wake ==
    /\ pc = "wait"
    /\ event
    /\ event' = FALSE
    /\ LoopIteration

(***************************************************************************)
(* ScriptHashHandler._on_script_hash_result                                *)
(***************************************************************************)
PathsAfterResult_rewinding(paths, entry, history) ==
    IF entry.kind = "BIP32"
    THEN [ paths EXCEPT ![entry.parent_path] =
             [ @ EXCEPT !.result_count = @ + 1,
                        !.last_index = IF Len(history) > 0 THEN entry.parent_index ELSE @,
                        !.highest_used_index =
                            IF Len(history) > 0 THEN Max(@, entry.parent_index) ELSE @ ] ]
    ELSE paths

PathsAfterResult_any_history(paths, entry, history) ==
    IF entry.kind = "BIP32"
    THEN [ paths EXCEPT ![entry.parent_path] =
             [ @ EXCEPT !.result_count = @ + 1,
                        !.highest_used_index = Max(@, entry.parent_index) ] ]
    ELSE paths

PathsAfterResult_without_max(paths, entry, history) ==
    IF entry.kind = "BIP32"
    THEN [ paths EXCEPT ![entry.parent_path] =
             [ @ EXCEPT !.result_count = @ + 1,
                        !.highest_used_index =
                            IF Len(history) > 0 THEN entry.parent_index ELSE @ ] ]
    ELSE paths

PathsAfterResult_next_index(paths, entry, history) ==
    IF entry.kind = "BIP32"
    THEN [ paths EXCEPT ![entry.parent_path] =
             [ @ EXCEPT !.result_count = @ + 1,
                        !.highest_used_index =
                            IF Len(history) > 0 THEN Max(@, entry.parent_index + 1) ELSE @ ] ]
    ELSE paths

\* The path counters after a completion for `entry` with `history`.
PathsAfterResult(paths, entry, history) ==
    IF entry.kind = "BIP32"
    THEN [ paths EXCEPT ![entry.parent_path] =
             [ @ EXCEPT !.result_count = @ + 1,
                        !.highest_used_index =
                            IF Len(history) > 0 THEN Max(@, entry.parent_index) ELSE @ ] ]
    ELSE paths

\* The result record stored for `entry`.
ResultRecord(paths, entry, history) ==
    IF entry.kind = "BIP32"
    THEN ScriptHashHistory(history, paths[entry.parent_path].subpath, entry.parent_index)
    ELSE ScriptHashHistory(history, None, -1)

\* The paths that were exhausted before the completion and are not after it.
Resumed(before, after) ==
    { p \in 1..Len(before) :
        _get_bip32_path_count(before[p]) = 0 /\ _get_bip32_path_count(after[p]) > 0 }

\* The script hashes found used so far.
UsedHashes == { h \in DOMAIN results : Len(results[h].history) > 0 }

delete_active_subscription_keeping(item_hash) ==
    /\ UNCHANGED active_subscriptions
    /\ event' = TRUE

delete_active_subscription_silent(item_hash) ==
    /\ active_subscriptions' = Without(active_subscriptions, item_hash)
    /\ UNCHANGED event

\* BlockchainScanner.delete_active_subscription, for a hash that is present.
delete_active_subscription(item_hash) ==
    /\ active_subscriptions' = Without(active_subscriptions, item_hash)
    /\ event' = TRUE

\* The transport delivers the history of a watched script hash.
_on_script_hash_result(script_hash, history) ==
    /\ script_hash \in DOMAIN subscriptions
    /\ IF handler_shutdowns = 0
       THEN UNCHANGED late_deliveries
       ELSE /\ late_deliveries < MaxLateDeliveries
            /\ late_deliveries' = late_deliveries + 1
    /\ LET entry == subscriptions[script_hash]
       IN  /\ entry.kind = "BIP32" /\ entry.parent_index > MaxUsedIndex
                => history = EmptyHistory
           /\ Cardinality(UsedHashes) >= MaxHits => history = EmptyHistory
           /\ results' = With(results, script_hash,
                              ResultRecord(bip32_paths, entry, history))
           /\ bip32_paths' = PathsAfterResult(bip32_paths, entry, history)
           /\ resumed' = resumed \cup Resumed(bip32_paths, bip32_paths')
    \* Whatever the callback raises, the transport is done with the key.
    /\ subscriptions' = Without(subscriptions, script_hash)
    /\ IF ~ handler_scanner
       THEN \* `self._scanner` was deleted by shutdown().
            /\ raised' = raised \cup {"AttributeError"}
            /\ UNCHANGED << active_subscriptions, event >>
       ELSE IF script_hash \notin DOMAIN active_subscriptions
       THEN \* `del` of a missing key.
            /\ raised' = raised \cup {"KeyError"}
            /\ UNCHANGED << active_subscriptions, event >>
       ELSE \* The callback ends by raising SubscriptionStale.
            /\ delete_active_subscription(script_hash)
            /\ UNCHANGED raised
    /\ UNCHANGED << pending_subscriptions, scan_entry_count, should_exit, handler_scanner,
                    handler_shutdowns, pc, exit_reason, extend_range_cb_calls,
                    extend_range_cb_value, required_entries, new_entries, is_done_calls >>

(***************************************************************************)
(* Specification                                                           *)
(***************************************************************************)
Init ==
    /\ pending_subscriptions = <<>>
    /\ bip32_paths = <<>>
    /\ active_subscriptions = <<>>
    /\ scan_entry_count = 0
    /\ event = FALSE
    /\ should_exit = FALSE
    /\ handler_scanner = TRUE
    /\ handler_shutdowns = 0
    /\ results = <<>>
    /\ subscriptions = <<>>
    /\ raised = {}
    /\ pc = "setup"
    /\ exit_reason = "none"
    /\ resumed = {}
    /\ late_deliveries = 0
    /\ extend_range_cb_calls = 0
    /\ extend_range_cb_value = 0
    /\ required_entries = 0
    /\ new_entries = <<>>
    /\ is_done_calls = <<>>

\* The hashes are numbered in the order in which the caller first uses them.
AddExplicitItem ==
    \E h \in ExplicitHashes :
        /\ \A g \in ExplicitHashes :
              g[2] < h[2] => \E i \in 1..Len(pending_subscriptions) :
                                pending_subscriptions[i].item_hash = g
        /\ add_explicit_item(Len(pending_subscriptions) + 1, "P2PKH", h)

\* use_account registers the subpaths of one account: the paths share the
\* account's keys, threshold and script types.
AddBip32SubpathOf(shapes) ==
    \E subpath \in Subpaths, a \in shapes :
        /\ \A i \in 1..Len(bip32_paths) : bip32_paths[i].script_types = a.script_types
        /\ add_bip32_subpath(subpath, a.nkeys, a.threshold, a.script_types)

AddBip32Subpath == AddBip32SubpathOf(AccountShapes)

Completion ==
    \E h \in DOMAIN subscriptions, history \in Histories :
        _on_script_hash_result(h, history)

Next ==
    \/ AddExplicitItem
    \/ AddBip32Subpath
    \/ StartScan
    \/ Wake
    \/ Completion
    \/ ShutdownCall

Spec == Init /\ [][Next]_vars

\* The loop is a scheduled coroutine: it runs when it can.
FairSpec == Spec /\ WF_vars(StartScan) /\ WF_vars(Wake)

\* A scan in which nobody requests a shutdown and the transport delivers
\* every history it was asked for.
NextWithoutShutdown ==
    \/ AddExplicitItem
    \/ AddBip32Subpath
    \/ StartScan
    \/ Wake
    \/ Completion

ScanSpec == Init /\ [][NextWithoutShutdown]_vars

(***************************************************************************)
(* SearchKeyEnumerator.use_account                                         *)
(***************************************************************************)
\* The longest key list wallet.read_key_list returns for an account.
MaxKeyRows == 2

DerivationTypes == {"PUBLIC_KEY_HASH", "SCRIPT_HASH", "PRIVATE_KEY"}

\* KeyListRow values: row number i of a key list is keyinstance_id i.
KeyLists ==
    UNION { [ 1..n -> [ derivation_type : DerivationTypes, derivation_data2 : 1..2 ] ] :
              n \in 0..MaxKeyRows }

\* The accounts use_account is called with. A deterministic account has a
\* threshold, master public keys and script types; an imported account has a
\* key list; "OTHER" is any account type use_account has no branch for.
Accounts ==
    { [ type |-> "DETERMINISTIC", shape |-> a, keys |-> <<>> ] : a \in AccountShapes }
    \cup { [ type |-> t, shape |-> [ threshold |-> 1, nkeys |-> 1,
                                      script_types |-> <<"P2PKH">> ], keys |-> k ] :
              t \in {"IMPORTED_ADDRESS", "IMPORTED_PRIVATE_KEY", "OTHER"}, k \in KeyLists }

\* ScriptHasher.get_item_hash_for_key_data: the script type and the hash, or
\* the exception raised for any other derivation type.
get_item_hash_for_key_data(key_data) ==
    IF key_data.derivation_type = "PUBLIC_KEY_HASH"
    THEN [ raised |-> "", script_type |-> "P2PKH",
           item_hash |-> << 0, key_data.derivation_data2, "P2PKH", 0 >> ]
    ELSE IF key_data.derivation_type = "SCRIPT_HASH"
    THEN [ raised |-> "", script_type |-> "MULTISIG_P2SH",
           item_hash |-> << 0, key_data.derivation_data2, "MULTISIG_P2SH", 0 >> ]
    ELSE [ raised |-> "NotImplementedError", script_type |-> "", item_hash |-> <<>> ]

RECURSIVE ImportedAddressItems(_, _, _)
\* `for key_data in wallet.read_key_list(account_id)` of an imported address
\* account, from row i on: the pool when the loop ends or raises.
ImportedAddressItems(rows, i, pending) ==
    IF i > Len(rows)
    THEN [ pending |-> pending, raised |-> "" ]
    ELSE LET r == get_item_hash_for_key_data(rows[i])
         IN  IF r.raised # ""
             THEN [ pending |-> pending, raised |-> r.raised ]
             ELSE ImportedAddressItems(rows, i + 1,
                     Append(pending,
                            SearchEntry("EXPLICIT", i, r.script_type, r.item_hash, None, -1)))

RECURSIVE ImportedPrivateKeyItems(_, _, _, _)
\* The same loop of an imported private key account: one item per script
\* type for the public key of each row.
ImportedPrivateKeyItems(rows, script_types, i, pending) ==
    IF i > Len(rows)
    THEN [ pending |-> pending, raised |-> "" ]
    ELSE IF rows[i].derivation_type # "PRIVATE_KEY"
    THEN [ pending |-> pending, raised |-> "AssertionError" ]
    ELSE LET public_key == [ path |-> 0, index |-> rows[i].derivation_data2, count |-> 1 ]
             items == [ n \in 1..Len(script_types) |->
                          SearchEntry("EXPLICIT", i, script_types[n],
                              get_item_hash_for_public_keys(script_types[n], public_key, 1),
                              None, -1) ]
         IN  ImportedPrivateKeyItems(rows, script_types, i + 1, pending \o items)

\* The pool and the paths when use_account returns or raises.
use_account(account, pending, paths) ==
    IF account.type = "DETERMINISTIC"
    THEN [ pending |-> pending,
           paths |-> paths \o
               << BIP32ParentPath(CHANGE_SUBPATH, account.shape.threshold,
                                  account.shape.nkeys, account.shape.script_types),
                  BIP32ParentPath(RECEIVING_SUBPATH, account.shape.threshold,
                                  account.shape.nkeys, account.shape.script_types) >>,
           raised |-> "" ]
    ELSE IF account.type = "IMPORTED_ADDRESS"
    THEN LET r == ImportedAddressItems(account.keys, 1, pending)
         IN  [ pending |-> r.pending, paths |-> paths, raised |-> r.raised ]
    ELSE IF account.type = "IMPORTED_PRIVATE_KEY"
    THEN LET r == ImportedPrivateKeyItems(account.keys, account.shape.script_types,
                                          1, pending)
         IN  [ pending |-> r.pending, paths |-> paths, raised |-> r.raised ]
    ELSE [ pending |-> pending, paths |-> paths,
           raised |-> "UnsupportedAccountTypeError" ]

\* A caller sets the enumerator up for an account; one deterministic account
\* per enumerator.
UseAccount ==
    \E account \in Accounts :
        LET r == use_account(account, pending_subscriptions, bip32_paths)
        IN  /\ pc = "setup"
            /\ account.type = "DETERMINISTIC" => bip32_paths = <<>>
            /\ Len(r.pending) <= MaxExplicitItems
            /\ pending_subscriptions' = r.pending
            /\ bip32_paths' = r.paths
            /\ raised' = IF r.raised = "" THEN raised ELSE raised \cup {r.raised}
            /\ is_done_calls' = <<>>
            /\ UNCHANGED << active_subscriptions, scan_entry_count, event, should_exit,
                            handler_scanner, handler_shutdowns, results, subscriptions,
                            pc, exit_reason, resumed, late_deliveries,
                            extend_range_cb_calls, extend_range_cb_value,
                            required_entries, new_entries >>

SetupSpec == Init /\ [][UseAccount]_vars

(***************************************************************************)
(* The enumerator called directly, outside scan_for_usage                  *)
(***************************************************************************)
\* The largest required_entries a direct caller passes; the smallest is -1.
MaxRequired == 2
RequiredCounts == -1..MaxRequired

\* A caller invokes create_new_entries(n) on the enumerator as it stands.
CreateNewEntriesCall ==
    \E n \in RequiredCounts :
        LET r == create_new_entries(n, pending_subscriptions, bip32_paths)
        IN  /\ pc = "setup"
            /\ required_entries' = n
            /\ new_entries' = r.entries
            /\ pending_subscriptions' = r.pending
            /\ bip32_paths' = r.paths
            /\ is_done_calls' = <<>>
            /\ UNCHANGED << active_subscriptions, scan_entry_count, event, should_exit,
                            handler_scanner, handler_shutdowns, results, subscriptions,
                            raised, pc, exit_reason, resumed, late_deliveries,
                            extend_range_cb_calls, extend_range_cb_value >>

\* The history of an entry that path number p has handed out reaches the
\* path's counters, as _on_script_hash_result updates them. The caller
\* reports one history per child index handed out.
PathResult ==
    \E p \in 1..Len(bip32_paths), history \in Histories :
        \E i \in 0..bip32_paths[p].last_index :
            LET path == bip32_paths[p]
                entry == DerivationStep(p, [path EXCEPT !.last_index = i - 1])[1]
            IN  /\ pc = "setup"
                /\ path.result_count < path.last_index + 1
                /\ i > MaxUsedIndex => history = EmptyHistory
                /\ bip32_paths' = PathsAfterResult(bip32_paths, entry, history)
                /\ is_done_calls' = <<>>
                /\ UNCHANGED << pending_subscriptions, active_subscriptions,
                                scan_entry_count, event, should_exit, handler_scanner,
                                handler_shutdowns, results, subscriptions, raised, pc,
                                exit_reason, resumed, late_deliveries,
                                extend_range_cb_calls, extend_range_cb_value,
                                required_entries, new_entries >>

\* How many is_done() calls in a row a caller makes.
MaxIsDoneCalls == 2

\* A caller invokes is_done() on the enumerator as it stands: the method
\* assigns nothing.
IsDoneCall ==
    /\ pc = "setup"
    /\ Len(is_done_calls) < MaxIsDoneCalls
    /\ is_done_calls' = Append(is_done_calls, is_done(bip32_paths, pending_subscriptions))
    /\ UNCHANGED << pending_subscriptions, bip32_paths, active_subscriptions,
                    scan_entry_count, event, should_exit, handler_scanner,
                    handler_shutdowns, results, subscriptions, raised, pc,
                    exit_reason, resumed, late_deliveries, extend_range_cb_calls,
                    extend_range_cb_value, required_entries, new_entries >>

\* The enumerator is also set up for a 2-of-3 multi-signer account with
\* three script types.
EnumeratorAccountShapes ==
    AccountShapes \cup
    { [threshold |-> 2, nkeys |-> 3,
       script_types |-> <<"MULTISIG_P2SH", "MULTISIG_BARE", "MULTISIG_ACCUMULATOR">>] }

\* The caller has not asked the enumerator for entries yet: the sources are
\* registered first, as use_account does.
NotEnumeratedYet ==
    /\ required_entries = 0
    /\ new_entries = <<>>
    /\ \A p \in 1..Len(bip32_paths) : bip32_paths[p].last_index = -1

EnumeratorNext ==
    \/ NotEnumeratedYet /\ AddExplicitItem
    \/ NotEnumeratedYet /\ AddBip32SubpathOf(EnumeratorAccountShapes)
    \/ CreateNewEntriesCall
    \/ PathResult
    \/ IsDoneCall

EnumeratorSpec == Init /\ [][EnumeratorNext]_vars

(***************************************************************************)
(* Properties                                                              *)
(***************************************************************************)
PathNumbers == 1..Len(bip32_paths)
GapLimitOf(p) == gap_limits[bip32_paths[p].subpath]

\* The entries the transport still watches, and those the scanner tracks.
WatchedEntries == { subscriptions[h] : h \in DOMAIN subscriptions }
ActiveEntries == { active_subscriptions[h] : h \in DOMAIN active_subscriptions }

\* The child indices of path p for which entries have been handed out.
GeneratedIndices(p) ==
    { e.parent_index : e \in { x \in WatchedEntries \cup ActiveEntries :
                                  x.kind = "BIP32" /\ x.parent_path = p } }
    \cup { results[h].bip32_subpath_index :
              h \in { x \in DOMAIN results :
                        /\ results[x].bip32_subpath_index > -1
                        /\ results[x].bip32_subpath = bip32_paths[p].subpath } }

\* The child indices a path would still yield, given a budget that does not bind.
AvailableIndices(p, parent_path) ==
    LET budget == (gap_limits[parent_path.subpath] + 1) * Len(parent_path.script_types)
        r == _obtain_entries_from_bip32_path(budget, p, parent_path, <<>>)
    IN  { r.entries[i].parent_index : i \in 1..Len(r.entries) }

\* C1: a path on which nothing was found used (highest_used_index = -1)
\* generates exactly the child indices 0..last_index with last_index at most
\* gap_limit - 1; once last_index + 1 = gap_limit it yields no further entry;
\* once all of its gap_limit * script_types lookups have completed the
\* scanner tracks none of its entries, and is_done() holds when that is so
\* for every path and the pending pool is empty; a scan that ends by
\* exhaustion leaves it at last_index = gap_limit - 1.
C1_GapLimitWithoutUsage ==
    \A p \in PathNumbers :
        LET pp == bip32_paths[p]
            g == GapLimitOf(p)
            AllResolved(q) ==
                /\ bip32_paths[q].highest_used_index = -1
                /\ bip32_paths[q].result_count
                     = GapLimitOf(q) * Len(bip32_paths[q].script_types)
        IN  pp.highest_used_index = -1 =>
              /\ pp.last_index <= g - 1
              /\ GeneratedIndices(p) = 0..pp.last_index
              /\ pp.last_index + 1 = g => AvailableIndices(p, pp) = {}
              /\ (AllResolved(p) /\ ~ should_exit) =>
                    \A e \in ActiveEntries : e.parent_path # p
              /\ ((\A q \in PathNumbers : AllResolved(q))
                    /\ pending_subscriptions = <<>> /\ pc # "setup")
                  => is_done(bip32_paths, pending_subscriptions)
              /\ exit_reason = "exhausted" => pp.last_index = g - 1

\* C1 witness: a scan has ended by exhaustion with a path of gap limit 2 on
\* which nothing was found used and whose indices 0 and 1 were both resolved.
C1_Witness ==
    /\ pc = "done" /\ exit_reason = "exhausted"
    /\ \E p \in PathNumbers :
          /\ bip32_paths[p].highest_used_index = -1
          /\ GapLimitOf(p) >= 2
          /\ bip32_paths[p].last_index = GapLimitOf(p) - 1
          /\ bip32_paths[p].result_count
                = GapLimitOf(p) * Len(bip32_paths[p].script_types)

\* C2 as stated: with highest_used_index = k >= 0 the path never goes beyond
\* child index k + gap_limit - 1.
C2_AsStated ==
    \A p \in PathNumbers :
        bip32_paths[p].highest_used_index >= 0 =>
            bip32_paths[p].last_index
                <= bip32_paths[p].highest_used_index + GapLimitOf(p) - 1

\* C2 amended: with highest_used_index = k >= 0 the path never goes beyond
\* child index k + gap_limit, and while last_index < k + gap_limit it still
\* yields entries (all of last_index + 1 .. k + gap_limit), is_done() is false
\* and the scan has not ended by exhaustion.
C2_GapLimitBeyondUsage ==
    \A p \in PathNumbers :
        LET pp == bip32_paths[p]
            limit == pp.highest_used_index + GapLimitOf(p)
        IN  pp.highest_used_index >= 0 =>
              /\ pp.last_index <= limit
              /\ AvailableIndices(p, pp) = (pp.last_index + 1)..limit
              /\ pp.last_index < limit =>
                    /\ ~ is_done(bip32_paths, pending_subscriptions)
                    /\ exit_reason # "exhausted"

\* C2 witness: a path with a used index k has been driven to k + gap_limit.
C2_Witness ==
    \E p \in PathNumbers :
        /\ bip32_paths[p].highest_used_index >= 0
        /\ bip32_paths[p].last_index
              = bip32_paths[p].highest_used_index + GapLimitOf(p)

\* C3: when a completion raises highest_used_index to k on a path that had no
\* budget left at last_index L, then k <= L, last_index stays L, the budget
\* becomes gap_limit - (L - k) > 0 and exactly the child indices
\* L + 1 .. k + gap_limit become available.
C3_StaleResultResumes ==
    [][ \A p \in PathNumbers :
          ( /\ Len(bip32_paths') = Len(bip32_paths)
            /\ _get_bip32_path_count(bip32_paths[p]) = 0
            /\ bip32_paths'[p].highest_used_index # bip32_paths[p].highest_used_index )
          => LET g == GapLimitOf(p)
                 L == bip32_paths[p].last_index
                 k == bip32_paths'[p].highest_used_index
             IN  /\ k <= L
                 /\ bip32_paths'[p].last_index = L
                 /\ _get_bip32_path_count(bip32_paths'[p]) = g - (L - k)
                 /\ g - (L - k) > 0
                 /\ AvailableIndices(p, bip32_paths'[p]) = (L + 1)..(k + g)
                 /\ Cardinality(AvailableIndices(p, bip32_paths'[p])) = g - (L - k)
      ]_vars

\* C3 witness: a path that a completion brought back from exhaustion has
\* since been driven to its new limit, beyond the limit of an unused path.
C3_Witness ==
    \E p \in resumed :
        /\ bip32_paths[p].highest_used_index >= 0
        /\ bip32_paths[p].last_index
              = bip32_paths[p].highest_used_index + GapLimitOf(p)

\* C4: when scan_for_usage leaves its loop and no shutdown was requested
\* before, that step produced and registered no entry, the active set is
\* empty, the transport watches nothing and is_done() holds.
C4_NaturalExit ==
    [][ (~ should_exit /\ pc # "done" /\ pc' = "done")
        => /\ scan_entry_count' = scan_entry_count
           /\ subscriptions' = subscriptions
           /\ DOMAIN subscriptions' = {}
           /\ DOMAIN active_subscriptions' = {}
           /\ is_done(bip32_paths', pending_subscriptions')
           /\ exit_reason' \in {"exhausted", "no_sources"}
      ]_vars

\* C4 witness: a scan over a BIP32 path that registered entries has ended by
\* exhaustion.
C4_Witness ==
    /\ pc = "done" /\ exit_reason = "exhausted"
    /\ scan_entry_count > 0
    /\ Len(bip32_paths) > 0
    /\ late_deliveries = 0

\* C5: once shutdown() has been requested while the loop is suspended in its
\* wait, scan_for_usage eventually ends, whatever the transport delivers.
C5_ShutdownEndsScan ==
    (should_exit /\ pc = "wait") ~> (pc = "done")

\* The steps of the scan itself, as opposed to the caller's setup calls.
ScanStep == pc # "setup" \/ pc' # "setup"

\* C6: from the moment shutdown() has been requested no step of the scan
\* takes an entry from the enumerator (pending pool and every last_index
\* stay), adds to the active set, counts or registers an entry; and the
\* first step the loop takes then is the one that ends it.
C6_NothingPulledAfterShutdown ==
    [][ (should_exit /\ ScanStep)
        => /\ pending_subscriptions' = pending_subscriptions
           /\ Len(bip32_paths') = Len(bip32_paths)
           /\ \A p \in PathNumbers :
                 bip32_paths'[p].last_index = bip32_paths[p].last_index
           /\ DOMAIN active_subscriptions' \subseteq DOMAIN active_subscriptions
           /\ DOMAIN subscriptions' \subseteq DOMAIN subscriptions
           /\ scan_entry_count' = scan_entry_count
           /\ pc' # pc => pc' = "done"
      ]_vars

\* C6 witness: a scan that had registered entries was ended by a shutdown
\* request while its window had room and a path still had budget.
C6_Witness ==
    /\ pc = "done" /\ exit_reason = "manual"
    /\ scan_entry_count > 0
    /\ ActiveCount < MINIMUM_ACTIVE_SUBSCRIPTIONS
    /\ \E p \in PathNumbers : _get_bip32_path_count(bip32_paths[p]) > 0

\* C7: when the loop wakes after shutdown() has been requested, that wake
\* ends the loop: the active set is left as it is, and with entries still
\* outstanding the exit is the manual interruption.
C7_ExitOnNextWake ==
    [][ (should_exit /\ pc = "wait" /\ event /\ ~ event')
        => /\ pc' = "done"
           /\ active_subscriptions' = active_subscriptions
           /\ ActiveCount > 0 => exit_reason' = "manual"
      ]_vars

\* C7 witness: the loop was woken and ended by a shutdown request with
\* entries still outstanding.
C7_Witness ==
    /\ pc = "done" /\ exit_reason = "manual"
    /\ ~ event
    /\ ActiveCount > 0
    /\ DOMAIN results # {}

\* C8: ScriptHashHandler.shutdown runs at most once (so its `del` never
\* raises), a scan that has ended has the exit flag set, and once the flag is
\* set no step changes the flag or anything shutdown() writes.
C8_ShutdownIdempotent ==
    /\ [](handler_shutdowns <= 1)
    /\ [](pc = "done" => should_exit)
    /\ [](should_exit <=> handler_shutdowns = 1)
    /\ [][ should_exit
           => /\ should_exit'
              /\ handler_shutdowns' = handler_shutdowns
              /\ handler_scanner' = handler_scanner
       ]_vars

\* C8 witness: shutdown() was requested from outside, and the loop then ran
\* its own shutdown() on the way out.
C8_Witness ==
    /\ pc = "done" /\ exit_reason = "manual"
    /\ handler_shutdowns = 1
    /\ ~ handler_scanner

\* The largest number of script types of a registered path (1 without paths).
MaxScriptTypes ==
    IF bip32_paths = <<>> THEN 1
    ELSE CHOOSE n \in { Len(bip32_paths[p].script_types) : p \in PathNumbers } :
            \A p \in PathNumbers : Len(bip32_paths[p].script_types) <= n

\* C9: the active set never holds more than the window target plus
\* (script types - 1) entries, and a step of the loop obtains entries from
\* the enumerator only when the active set is below the target.
C9_WindowBound ==
    /\ [](ActiveCount <= MINIMUM_ACTIVE_SUBSCRIPTIONS + (MaxScriptTypes - 1))
    /\ [][ scan_entry_count' # scan_entry_count
           => ActiveCount < MINIMUM_ACTIVE_SUBSCRIPTIONS ]_vars

\* C9 witness: a derivation step with two script types has pushed the active
\* set over the window target.
C9_Witness ==
    /\ ActiveCount = MINIMUM_ACTIVE_SUBSCRIPTIONS + 1
    /\ MaxScriptTypes = 2
    /\ pc = "wait"

\* What is still to be done in a scan: three for every entry a path can
\* still generate (no path goes beyond child index MaxUsedIndex + gap limit)
\* and for every pending explicit entry, two for every lookup the transport
\* owes, one for a wake that is due and one for a loop that has not ended.
Rank ==
    LET Ungenerated(p) ==
            Len(bip32_paths[p].script_types)
                * (MaxUsedIndex + GapLimitOf(p) - bip32_paths[p].last_index)
        RECURSIVE Sum(_)
        Sum(p) == IF p = 0 THEN 0 ELSE Ungenerated(p) + Sum(p - 1)
    IN  3 * (Sum(Len(bip32_paths)) + Len(pending_subscriptions))
          + 2 * Cardinality(DOMAIN subscriptions)
          + (IF event THEN 1 ELSE 0)
          + (IF pc = "done" THEN 0 ELSE IF pc = "wait" THEN 1 ELSE 2)

\* C10: without a shutdown request, and with a transport that delivers the
\* history of every script hash it watches, scan_for_usage ends by natural
\* exhaustion: every step of the scan lowers Rank, which is never negative,
\* and as long as the scan has not ended, with every source exhausted and
\* the active set empty, the loop can run (it has not started, or it waits
\* and the event is set) or the transport owes a history to the handler.
C10_ScanTerminates ==
    /\ [](Rank >= 0)
    /\ [][ScanStep => Rank' < Rank]_vars
    /\ []( \/ /\ pc = "done"
              /\ exit_reason \in {"exhausted", "no_sources"}
              /\ ActiveCount = 0
              /\ is_done(bip32_paths, pending_subscriptions)
           \/ pc = "setup"
           \/ pc = "wait" /\ event
           \/ DOMAIN subscriptions # {} /\ handler_scanner )

\* C10 witness: a scan that found two used script hashes on its way has
\* ended by exhaustion.
C10_Witness ==
    /\ pc = "done" /\ exit_reason = "exhausted"
    /\ Cardinality(UsedHashes) = MaxHits
    /\ \E p \in PathNumbers : bip32_paths[p].highest_used_index = MaxUsedIndex

\* A step in which create_new_entries was called directly.
CallStep ==
    \/ << required_entries, new_entries >>' # << required_entries, new_entries >>
    \/ Len(pending_subscriptions') < Len(pending_subscriptions)
    \/ /\ Len(bip32_paths') = Len(bip32_paths)
       /\ \E p \in PathNumbers : bip32_paths'[p].last_index > bip32_paths[p].last_index

\* C11: a create_new_entries(n) call with n > 0 on a pending pool P returns
\* the first min(n, |P|) entries of P, in P's order, at the head of its
\* result, and leaves exactly the rest of P pending, in the same order;
\* nothing after that head is an explicit entry.
C11_FifoDrain ==
    [][ (CallStep /\ required_entries' > 0)
        => LET P == pending_subscriptions
               k == Min(required_entries', Len(P))
           IN  /\ Len(new_entries') >= k
               /\ SubSeq(new_entries', 1, k) = SubSeq(P, 1, k)
               /\ pending_subscriptions' = SubSeq(P, k + 1, Len(P))
               /\ \A i \in (k + 1)..Len(new_entries') : new_entries'[i].kind = "BIP32"
      ]_vars

\* C11 witness: create_new_entries(1) on a pool of two returned the item
\* added first and left the item added second pending.
C11_Witness ==
    /\ required_entries = 1
    /\ Len(new_entries) = 1
    /\ new_entries[1].kind = "EXPLICIT" /\ new_entries[1].keyinstance_id = 1
    /\ Len(pending_subscriptions) = 1
    /\ pending_subscriptions[1].keyinstance_id = 2

\* C12: a create_new_entries call that leaves the pending pool non-empty
\* returns explicit entries only and advances no path's last_index, and in
\* every returned list no explicit entry comes after a BIP32 entry.
C12_ExplicitBeforeBip32 ==
    [][ CallStep
        => /\ pending_subscriptions' # <<>>
                => /\ \A i \in 1..Len(new_entries') : new_entries'[i].kind = "EXPLICIT"
                   /\ Len(bip32_paths') = Len(bip32_paths)
                   /\ \A p \in PathNumbers :
                         bip32_paths'[p].last_index = bip32_paths[p].last_index
           /\ \A i, j \in 1..Len(new_entries') :
                 (i < j /\ new_entries'[i].kind = "BIP32") => new_entries'[j].kind = "BIP32"
      ]_vars

\* C12 witness: create_new_entries(1) returned one explicit entry and left
\* one pending while a registered path that could yield entries was not
\* touched.
C12_Witness ==
    /\ required_entries = 1
    /\ Len(new_entries) = 1 /\ new_entries[1].kind = "EXPLICIT"
    /\ Len(pending_subscriptions) = 1
    /\ \E p \in PathNumbers :
          /\ bip32_paths[p].last_index = -1
          /\ _get_bip32_path_count(bip32_paths[p]) > 0

\* C13: a create_new_entries(n) call with n > 0 returns at most
\* n + (script types of the last path stepped - 1) entries, and at most n
\* when no path was stepped; the BIP32 entries returned for a path are one per
\* script type for every child index from its old last_index + 1 to its new
\* last_index; a call with n <= 0 returns nothing and leaves the pool and
\* the paths as they are.
C13_ReturnedCount ==
    [][ CallStep
        => LET n == required_entries'
               returned == new_entries'
               last == returned[Len(returned)]
               overshoot == IF returned # <<>> /\ last.kind = "BIP32"
                            THEN Len(bip32_paths[last.parent_path].script_types) - 1
                            ELSE 0
               FromPath(p) == { i \in 1..Len(returned) :
                                  returned[i].kind = "BIP32" /\ returned[i].parent_path = p }
           IN  /\ Len(bip32_paths') = Len(bip32_paths)
               /\ n <= 0 => /\ returned = <<>>
                            /\ pending_subscriptions' = pending_subscriptions
                            /\ bip32_paths' = bip32_paths
               /\ n > 0 => Len(returned) <= n + overshoot
               /\ \A p \in PathNumbers :
                     /\ Cardinality(FromPath(p))
                          = Len(bip32_paths[p].script_types)
                              * (bip32_paths'[p].last_index - bip32_paths[p].last_index)
                     /\ \A c \in (bip32_paths[p].last_index + 1)..bip32_paths'[p].last_index :
                           \A t \in 1..Len(bip32_paths[p].script_types) :
                              \E i \in FromPath(p) :
                                 /\ returned[i].parent_index = c
                                 /\ returned[i].script_type = bip32_paths[p].script_types[t]
      ]_vars

\* C13 witness: create_new_entries(1) returned the two entries of one
\* derivation step of a path with two script types.
C13_Witness ==
    /\ required_entries = 1
    /\ Len(new_entries) = 2
    /\ new_entries[1].kind = "BIP32" /\ new_entries[2].kind = "BIP32"
    /\ new_entries[1].parent_index = new_entries[2].parent_index
    /\ new_entries[1].script_type # new_entries[2].script_type

\* The gap-limit budget a path has left, as the specification defines it.
RemainingBudget(parent_path) ==
    IF parent_path.highest_used_index = -1
    THEN gap_limits[parent_path.subpath] - (parent_path.last_index + 1)
    ELSE gap_limits[parent_path.subpath]
            - (parent_path.last_index - parent_path.highest_used_index)

\* C14: every is_done() call returns TRUE exactly when the pending pool is
\* empty and every registered path has zero remaining budget, which is
\* exactly when create_new_entries would return nothing however much it
\* were asked for; calls repeated while the enumerator does not change
\* return the same value.
C14_IsDone ==
    LET expected == /\ pending_subscriptions = <<>>
                    /\ \A p \in PathNumbers : RemainingBudget(bip32_paths[p]) = 0
        plenty == MaxRequired + Len(pending_subscriptions)
        nothing_left ==
            create_new_entries(plenty, pending_subscriptions, bip32_paths).entries = <<>>
    IN  /\ expected <=> nothing_left
        /\ \A i \in 1..Len(is_done_calls) : is_done_calls[i] <=> expected
        /\ \A i, j \in 1..Len(is_done_calls) : is_done_calls[i] = is_done_calls[j]

\* C14 witness: is_done() was called twice in a row and returned TRUE on an
\* enumerator whose explicit pool was drained and whose path, with a used
\* index, was driven to its limit.
C14_Witness ==
    /\ is_done_calls = << TRUE, TRUE >>
    /\ new_entries # <<>>
    /\ \E p \in PathNumbers :
          /\ bip32_paths[p].highest_used_index >= 0
          /\ bip32_paths[p].last_index > bip32_paths[p].highest_used_index

\* C15: every entry the loop is handed by create_new_entries, an explicit
\* item added twice with the same hash included, becomes an outstanding
\* lookup of its own: a step that hands out d entries adds d entries to the
\* active set.
C15_DuplicatesSeparatelyScanned ==
    [][ scan_entry_count' > scan_entry_count
        => ActiveCount' - ActiveCount = scan_entry_count' - scan_entry_count
      ]_vars

C17_OneResultPerToken ==
    [][ \A h \in DOMAIN results :
          /\ h \in DOMAIN results'
          /\ results'[h] = results[h]
          /\ h \notin DOMAIN active_subscriptions' \ DOMAIN active_subscriptions
      ]_vars

\* C18: when a use_account call raises, the pending pool and the list of
\* parent paths are what they were before the call.
C18_NoPartialSetup ==
    [][ raised' # raised
        => /\ pending_subscriptions' = pending_subscriptions
           /\ bip32_paths' = bip32_paths
      ]_vars

\* The number of entries a step takes from the enumerator: what leaves the
\* pending pool plus one entry per script type for every child index a path
\* advances over.
PulledEntries ==
    LET RECURSIVE FromPaths(_)
        FromPaths(p) ==
            IF p = 0 THEN 0
            ELSE Len(bip32_paths[p].script_types)
                    * (bip32_paths'[p].last_index - bip32_paths[p].last_index)
                 + FromPaths(p - 1)
    IN  (Len(pending_subscriptions) - Len(pending_subscriptions'))
          + FromPaths(Len(bip32_paths))

\* C19: a step of the scan that takes d > 0 entries from the enumerator
\* invokes the progress callback once, with the last value passed plus d; a
\* step that takes none does not invoke it; the value last passed is always
\* the number of entries registered so far.
C19_ProgressCallback ==
    /\ [](extend_range_cb_value = scan_entry_count)
    /\ [](extend_range_cb_calls <= extend_range_cb_value)
    /\ [][ ScanStep
           => /\ PulledEntries >= 0
              /\ PulledEntries > 0
                    => /\ extend_range_cb_calls' = extend_range_cb_calls + 1
                       /\ extend_range_cb_value' = extend_range_cb_value + PulledEntries
                       /\ extend_range_cb_value' > extend_range_cb_value
              /\ PulledEntries = 0
                    => /\ extend_range_cb_calls' = extend_range_cb_calls
                       /\ extend_range_cb_value' = extend_range_cb_value
       ]_vars

\* C19 witness: a scan that ended by exhaustion invoked the callback three
\* times, with batches of more than one entry among them.
C19_Witness ==
    /\ pc = "done" /\ exit_reason = "exhausted"
    /\ extend_range_cb_calls = 3
    /\ extend_range_cb_value > 3

\* C20: for every parent path, highest_used_index is at least -1 and at
\* most last_index.
C20_UsedWithinGenerated ==
    \A p \in PathNumbers :
        /\ bip32_paths[p].highest_used_index >= -1
        /\ bip32_paths[p].highest_used_index <= bip32_paths[p].last_index

\* C20 witness: the highest child index a path has generated was found used
\* before the path generated any further.
C20_Witness ==
    \E p \in PathNumbers :
        /\ bip32_paths[p].highest_used_index = bip32_paths[p].last_index
        /\ bip32_paths[p].last_index >= 1

\* The positions in the returned list of the entries of path p at child index c.
StepBlock(returned, p, c) ==
    { i \in 1..Len(returned) :
        /\ returned[i].kind = "BIP32"
        /\ returned[i].parent_path = p
        /\ returned[i].parent_index = c }

\* C21: in a create_new_entries call every child index a path advances over
\* (old last_index + 1 up to the new last_index) contributes one derivation
\* step: as many entries as the path has script types, next to each other
\* in the returned list, one per script type in the path's order, all with
\* that child index and that path; no other BIP32 entry is returned.
C21_DerivationFanOut ==
    [][ CallStep
        => LET returned == new_entries'
           IN  /\ Len(bip32_paths') = Len(bip32_paths)
               /\ \A p \in PathNumbers :
                     \A c \in (bip32_paths[p].last_index + 1)..bip32_paths'[p].last_index :
                        LET block == StepBlock(returned, p, c)
                            first == CHOOSE i \in block : \A j \in block : i <= j
                            types == bip32_paths[p].script_types
                        IN  /\ Cardinality(block) = Len(types)
                            /\ block = first..(first + Len(types) - 1)
                            /\ \A n \in 1..Len(types) :
                                  returned[first + n - 1].script_type = types[n]
               /\ \A i \in 1..Len(returned) :
                     returned[i].kind = "BIP32"
                        => /\ returned[i].parent_path \in PathNumbers
                           /\ returned[i].parent_index
                                 > bip32_paths[returned[i].parent_path].last_index
                           /\ returned[i].parent_index
                                 <= bip32_paths'[returned[i].parent_path].last_index
      ]_vars

\* C21 witness: create_new_entries(1) returned the three entries of one
\* derivation step of a path with three script types.
C21_Witness ==
    /\ required_entries = 1
    /\ Len(new_entries) = 3
    /\ \A i \in 1..3 : /\ new_entries[i].kind = "BIP32"
                        /\ new_entries[i].parent_index = 0
                        /\ new_entries[i].parent_path = 1
    /\ Cardinality({ new_entries[i].script_type : i \in 1..3 }) = 3

\* The entries of path p that a step newly registers with the transport.
NewlyWatchedOf(p) ==
    { subscriptions'[h] :
        h \in { x \in DOMAIN subscriptions' \ DOMAIN subscriptions :
                  /\ subscriptions'[x].kind = "BIP32"
                  /\ subscriptions'[x].parent_path = p } }

\* C22: no step lowers a path's last_index; a step that raises it by d
\* hands out the entries of exactly d derivation steps, one child index
\* each (old last_index + 1 up to the new one) whatever the number of script
\* types, and is a step of the loop that registers entries; a completion
\* leaves every last_index as it is.
C22_LastIndexAdvance ==
    [][ \A p \in PathNumbers :
          LET old == bip32_paths[p].last_index
              new == bip32_paths'[p].last_index
          IN  /\ Len(bip32_paths') >= Len(bip32_paths)
              /\ new >= old
              /\ new > old
                    => /\ scan_entry_count' > scan_entry_count
                       /\ results' = results
                       /\ { e.parent_index : e \in NewlyWatchedOf(p) } = (old + 1)..new
                       /\ Cardinality(NewlyWatchedOf(p))
                            = (new - old) * Len(bip32_paths[p].script_types)
              /\ results' # results => new = old
      ]_vars

\* C22 witness: a path with two script types has advanced to child index 2
\* in steps of one, and completions have arrived meanwhile.
C22_Witness ==
    /\ DOMAIN results # {}
    /\ \E p \in PathNumbers :
          /\ Len(bip32_paths[p].script_types) = 2
          /\ bip32_paths[p].last_index = 2
          /\ GeneratedIndices(p) = 0..2

\* C23: has_sources() is true exactly when the pending pool is non-empty or
\* a parent path is registered. No step removes a parent path, so with a path
\* registered has_sources() holds after every later step, exhausted or not;
\* with no path registered it is false whenever the pool is empty, and the
\* loop is left through its `while` test only with no path, an empty pool
\* and nothing active.
C23_HasSources ==
    [][ /\ has_sources(bip32_paths, pending_subscriptions)
            <=> (pending_subscriptions # << >> \/ Len(bip32_paths) > 0)
        /\ Len(bip32_paths') >= Len(bip32_paths)
        /\ Len(bip32_paths) > 0
              => has_sources(bip32_paths', pending_subscriptions')
        /\ (Len(bip32_paths') = 0 /\ pending_subscriptions' = << >>)
              => ~ has_sources(bip32_paths', pending_subscriptions')
        /\ (exit_reason' = "no_sources" /\ exit_reason # "no_sources")
              => /\ Len(bip32_paths) = 0
                 /\ pending_subscriptions = << >>
                 /\ ActiveCount = 0
      ]_vars

\* C23 witness: the scan ended with every registered path exhausted and the
\* pool drained, and has_sources() still holds.
C23_Witness ==
    /\ exit_reason = "exhausted"
    /\ Len(bip32_paths) > 0
    /\ pending_subscriptions = << >>
    /\ \A p \in PathNumbers : _get_bip32_path_count(bip32_paths[p]) = 0
    /\ scan_entry_count > 0
    /\ has_sources(bip32_paths, pending_subscriptions)

\* C24: the token of every BIP32 entry create_new_entries hands out is the
\* hasher's value for the entry's script type, the child keys of its path at
\* its index, and the signing threshold of its path.
C24_TokenUsesPathThreshold ==
    \A i \in 1..Len(new_entries) :
      LET e == new_entries[i]
      IN  e.kind = "BIP32"
            => e.item_hash =
                 get_item_hash_for_public_keys(e.script_type,
                     ChildKeys(e.parent_path, bip32_paths[e.parent_path], e.parent_index),
                     bip32_paths[e.parent_path].threshold)

\* The child indices of path p resolved so far with a non-empty history.
UsedIndices(p, res) == { h[2] : h \in { x \in DOMAIN res : x[1] = p /\ Len(res[x].history) > 0 } }

LargestUsedIndex(p, res) ==
    IF UsedIndices(p, res) = {} THEN -1
    ELSE CHOOSE k \in UsedIndices(p, res) : \A j \in UsedIndices(p, res) : j <= k

\* C25: a completion with a non-empty history for a BIP32 entry of child index
\* i sets its path's highest_used_index to the larger of the old value and i
\* and touches no other path; any other completion and any other step leave
\* every highest_used_index as it is; so the value never decreases and always
\* is the largest child index of the path resolved with a non-empty history,
\* or -1 when there is none.
C25_HighestUsedIndex ==
    [][ /\ \A p \in PathNumbers :
            /\ bip32_paths'[p].highest_used_index >= bip32_paths[p].highest_used_index
            /\ bip32_paths[p].highest_used_index = LargestUsedIndex(p, results)
            /\ bip32_paths'[p].highest_used_index = LargestUsedIndex(p, results')
        /\ \A h \in DOMAIN subscriptions \ DOMAIN subscriptions' :
            LET entry == subscriptions[h]
                history == results'[h].history
            IN  \A p \in PathNumbers :
                  bip32_paths'[p].highest_used_index =
                    IF entry.kind = "BIP32" /\ entry.parent_path = p /\ Len(history) > 0
                    THEN Max(bip32_paths[p].highest_used_index, entry.parent_index)
                    ELSE bip32_paths[p].highest_used_index
        /\ DOMAIN subscriptions \subseteq DOMAIN subscriptions'
              => \A p \in PathNumbers :
                   bip32_paths'[p].highest_used_index = bip32_paths[p].highest_used_index
      ]_vars

\* C25 witness: on one path child indices 0 and 1 were resolved with a
\* non-empty history and a further index with an empty one, and
\* highest_used_index is 1.
C25_Witness ==
    \E p \in PathNumbers :
        /\ UsedIndices(p, results) = {0, 1}
        /\ bip32_paths[p].highest_used_index = 1
        /\ \E h \in DOMAIN results :
              h[1] = p /\ h[2] > 1 /\ Len(results[h].history) = 0

\* The last child index a path generates when its highest used index is h.
Frontier(p, h) == IF h > -1 THEN h + GapLimitOf(p) ELSE GapLimitOf(p) - 1

\* The highest used index a gap-limit scan of path p settles on when the
\* histories are those of res: from h, the largest used child index within
\* the frontier of h, repeated until it no longer moves. It reads res only
\* at child indices up to the frontier it returns.
RECURSIVE SettledHighest(_, _, _)
SettledHighest(p, res, h) ==
    LET within == { i \in UsedIndices(p, res) : i <= Frontier(p, h) }
        h2 == IF within = {} THEN -1
              ELSE CHOOSE k \in within : \A j \in within : j <= k
    IN  IF h2 = h THEN h ELSE SettledHighest(p, res, h2)

\* The tokens of path p for the child indices 0..last.
TokensUpTo(p, last) ==
    { DerivationStep(p, [bip32_paths[p] EXCEPT !.last_index = i - 1])[n].item_hash :
        i \in 0..last, n \in 1..Len(bip32_paths[p].script_types) }

\* C26: at natural exit the state is a function of the histories of the
\* tokens alone: on every path highest_used_index is the index the gap-limit
\* scan settles on for these histories, last_index is its frontier, and the
\* results hold exactly the tokens of child indices 0..last_index; nothing is
\* pending, watched or active. The order in which the completions arrived
\* does not enter.
C26_OrderIndependent ==
    exit_reason = "exhausted"
      => /\ pending_subscriptions = << >>
         /\ DOMAIN subscriptions = {}
         /\ DOMAIN active_subscriptions = {}
         /\ \A p \in PathNumbers :
              LET h == SettledHighest(p, results, -1)
              IN  /\ bip32_paths[p].highest_used_index = h
                  /\ bip32_paths[p].last_index = Frontier(p, h)
                  /\ { x \in DOMAIN results : x[1] = p } = TokensUpTo(p, Frontier(p, h))

\* C26 witness: a scan ended by exhaustion on a path whose child indices 0
\* and 1 are both used, so that their completions could arrive in either
\* order, at the frontier of index 1.
C26_Witness ==
    /\ exit_reason = "exhausted"
    /\ \E p \in PathNumbers :
          /\ UsedIndices(p, results) = {0, 1}
          /\ bip32_paths[p].last_index = 1 + GapLimitOf(p)
          /\ p \in resumed

\* The loop is suspended in `await self._event.wait()` on a cleared event.
Suspended == pc = "wait" /\ ~ event

\* C27: whenever the loop is suspended on a cleared event the active set is
\* not empty, before and after every step, however many completions
\* arrived since the loop last ran; and a wake that does not end the loop
\* asks the enumerator for MINIMUM_ACTIVE_SUBSCRIPTIONS minus the current
\* size of the active set: it takes at least that many entries, or all the
\* enumerator has.
C27_NoLostWakeup ==
    [][ /\ Suspended => ActiveCount > 0
        /\ Suspended' => DOMAIN active_subscriptions' # {}
        /\ (pc = "wait" /\ event /\ ~ event' /\ pc' = "wait")
              => \/ PulledEntries >= MINIMUM_ACTIVE_SUBSCRIPTIONS - ActiveCount
                 \/ /\ pending_subscriptions' = << >>
                    /\ \A p \in PathNumbers : _get_bip32_path_count(bip32_paths'[p]) = 0
      ]_vars

\* C27 witness: the loop is awake after two completions emptied the active
\* set of a full window before it ran again, with entries left to scan.
C27_Witness ==
    /\ pc = "wait" /\ event
    /\ ActiveCount = 0
    /\ Cardinality(DOMAIN results) >= MINIMUM_ACTIVE_SUBSCRIPTIONS
    /\ scan_entry_count = Cardinality(DOMAIN results)
    /\ ~ is_done(bip32_paths, pending_subscriptions)
    /\ ~ should_exit

\* C28: a completion delivered after ScriptHashHandler.shutdown() has run
\* raises no error (the unsubscribe signal is not recorded as one), stores
\* the history under its token and leaves every path's highest_used_index
\* the largest used child index on record.
C28_LateCompletionHandled ==
    [][ \A h \in DOMAIN subscriptions \ DOMAIN subscriptions' :
          handler_shutdowns > 0
            => /\ raised' = raised
               /\ h \in DOMAIN results'
               /\ \A p \in PathNumbers :
                    bip32_paths'[p].highest_used_index = LargestUsedIndex(p, results')
      ]_vars

\* C29: in a create_new_entries call, a path whose last_index advances is
\* preceded only by paths that the call leaves with zero remaining budget
\* (they were visited first and the budget of the call outlasted them), and
\* in the returned list the entries of a path registered earlier come before
\* those of a path registered later.
C29_RegistrationOrder ==
    [][ (CallStep /\ Len(bip32_paths') = Len(bip32_paths))
        => /\ \A q \in PathNumbers :
                bip32_paths'[q].last_index > bip32_paths[q].last_index
                  => \A p \in 1..(q - 1) :
                        /\ RemainingBudget(bip32_paths'[p]) = 0
                        /\ _get_bip32_path_count(bip32_paths'[p]) = 0
           /\ \A i, j \in 1..Len(new_entries') :
                (i < j /\ new_entries'[i].kind = "BIP32" /\ new_entries'[j].kind = "BIP32")
                  => new_entries'[i].parent_path <= new_entries'[j].parent_path
      ]_vars

\* C29 witness: one call returned entries of the first path followed by
\* entries of the second, and the first path has no budget left.
C29_Witness ==
    /\ Len(bip32_paths) >= 2
    /\ Len(new_entries) >= 2
    /\ new_entries[1].kind = "BIP32" /\ new_entries[1].parent_path = 1
    /\ new_entries[Len(new_entries)].kind = "BIP32"
    /\ new_entries[Len(new_entries)].parent_path = 2
    /\ _get_bip32_path_count(bip32_paths[1]) = 0
    /\ bip32_paths[2].last_index >= 0

\* The tags of an entry agree with its kind.
WellTagged(e) ==
    \/ /\ e.kind = "EXPLICIT"
       /\ e.keyinstance_id # None
       /\ e.parent_path = None
       /\ e.parent_index = -1
    \/ /\ e.kind = "BIP32"
       /\ e.keyinstance_id = None
       /\ e.parent_path \in PathNumbers
       /\ e.parent_index >= 0
       /\ e.parent_index <= bip32_paths[e.parent_path].last_index

\* C30: every entry the enumerator holds or has handed out (pending, tracked
\* by the scanner, watched by the transport) is an EXPLICIT entry with a key
\* identifier, no parent path and parent index -1, or a BIP32 entry without
\* key identifier, with a registered parent path and a child index between 0
\* and that path's last_index; none is of kind NONE.
C30_WellTagged ==
    /\ \A i \in 1..Len(pending_subscriptions) :
          /\ WellTagged(pending_subscriptions[i])
          /\ pending_subscriptions[i].kind = "EXPLICIT"
    /\ \A e \in WatchedEntries \cup ActiveEntries :
          WellTagged(e) /\ e.kind # "NONE"

\* C30 witness: the scanner tracks an explicit entry and a BIP32 entry of a
\* child index above 0 at the same time.
C30_Witness ==
    /\ \E e \in ActiveEntries : e.kind = "EXPLICIT" /\ e.keyinstance_id # None
    /\ \E e \in ActiveEntries :
          /\ e.kind = "BIP32"
          /\ e.parent_index > 0
          /\ e.parent_index <= bip32_paths[e.parent_path].last_index

\* The token of path p at child index i for its n-th script type.
TokenOf(p, i, n) ==
    DerivationStep(p, [bip32_paths[p] EXCEPT !.last_index = i - 1])[n].item_hash

\* C31: when the loop has ended by exhaustion, every path has
\* last_index = highest_used_index + gap_limit (gap_limit - 1 when nothing
\* was found used), and every child index above highest_used_index up to
\* last_index, gap_limit of them, has a stored result with an empty history
\* for every script type of the path.
C31_GapPostcondition ==
    exit_reason = "exhausted"
      => \A p \in PathNumbers :
           LET k == bip32_paths[p].highest_used_index
               L == bip32_paths[p].last_index
           IN  /\ L = k + GapLimitOf(p)
               /\ k = -1 => L = GapLimitOf(p) - 1
               /\ Cardinality((k + 1)..L) = GapLimitOf(p)
               /\ \A i \in (k + 1)..L, n \in 1..Len(bip32_paths[p].script_types) :
                     /\ TokenOf(p, i, n) \in DOMAIN results
                     /\ results[TokenOf(p, i, n)].history = EmptyHistory
                     /\ results[TokenOf(p, i, n)].bip32_subpath_index = i

\* C31 witness: the loop ended by exhaustion with one path on which nothing
\* was found used and one two-script-type path with a used child index.
C31_Witness ==
    /\ exit_reason = "exhausted"
    /\ \E p \in PathNumbers : bip32_paths[p].highest_used_index = -1
    /\ \E p \in PathNumbers :
          /\ bip32_paths[p].highest_used_index >= 0
          /\ Len(bip32_paths[p].script_types) = 2
          /\ GapLimitOf(p) = GapLimit

\* C32: in every reachable state the budget _get_bip32_path_count computes
\* for a path lies between 0 and the path's gap limit, and a path that yields
\* no further entry has budget exactly 0, so that is_done() holds exactly
\* when nothing is pending and no path yields an entry.
C32_BudgetNeverNegative ==
    /\ \A p \in PathNumbers :
          /\ GapLimitOf(p) >= 0
          /\ _get_bip32_path_count(bip32_paths[p]) >= 0
          /\ _get_bip32_path_count(bip32_paths[p]) <= GapLimitOf(p)
          /\ AvailableIndices(p, bip32_paths[p]) = {}
                <=> _get_bip32_path_count(bip32_paths[p]) = 0
    /\ is_done(bip32_paths, pending_subscriptions)
          <=> /\ pending_subscriptions = << >>
              /\ \A p \in PathNumbers : AvailableIndices(p, bip32_paths[p]) = {}

\* C32 witness: a path with a used child index is at budget 0 while
\* completions of its entries are still outstanding and another path still
\* has budget.
C32_Witness ==
    /\ pc = "wait"
    /\ \E p \in PathNumbers :
          /\ bip32_paths[p].highest_used_index >= 0
          /\ _get_bip32_path_count(bip32_paths[p]) = 0
          /\ bip32_paths[p].result_count
                < (bip32_paths[p].last_index + 1) * Len(bip32_paths[p].script_types)
    /\ \E p \in PathNumbers : _get_bip32_path_count(bip32_paths[p]) > 0

(***************************************************************************)
(* A scan whose explicit items all have different item hashes              *)
(***************************************************************************)
\* The caller adds an explicit item whose hash no pending item has.
AddDistinctExplicitItem ==
    /\ AddExplicitItem
    /\ \A i, j \in 1..Len(pending_subscriptions') :
          i # j => pending_subscriptions'[i].item_hash # pending_subscriptions'[j].item_hash

DistinctNext ==
    \/ AddDistinctExplicitItem
    \/ AddBip32Subpath
    \/ StartScan
    \/ Wake
    \/ Completion
    \/ ShutdownCall

DistinctSpec == Init /\ [][DistinctNext]_vars

\* The result records of the entries of path p.
ResultsOf(p) == { h \in DOMAIN results : h[1] = p }

\* C33: in a scan with distinct tokens, as long as no shutdown was requested
\* the scanned-entry count is the size of the active set plus the number of
\* result records; in every state each path's result_count is the number of
\* result records of its entries and at most
\* (last_index + 1) * number of script types, and it equals that product
\* once the loop has ended by exhaustion.
C33_NothingLostOrDoubled ==
    /\ ~ should_exit
          => scan_entry_count = ActiveCount + Cardinality(DOMAIN results)
    /\ \A p \in PathNumbers :
          LET generated == (bip32_paths[p].last_index + 1) * Len(bip32_paths[p].script_types)
          IN  /\ bip32_paths[p].result_count = Cardinality(ResultsOf(p))
              /\ bip32_paths[p].result_count <= generated
              /\ exit_reason = "exhausted" => bip32_paths[p].result_count = generated
    /\ exit_reason = "exhausted" => scan_entry_count = Cardinality(DOMAIN results)

\* C33 witness: before any shutdown, explicit and BIP32 results are in, a
\* full window is active and a two-script-type path has received some but
\* not all of its results.
C33_Witness ==
    /\ ~ should_exit
    /\ ActiveCount >= MINIMUM_ACTIVE_SUBSCRIPTIONS
    /\ \E h \in DOMAIN results : h[1] = 0
    /\ \E p \in PathNumbers :
          /\ Len(bip32_paths[p].script_types) = 2
          /\ bip32_paths[p].result_count > 0
          /\ bip32_paths[p].result_count
                < (bip32_paths[p].last_index + 1) * Len(bip32_paths[p].script_types)

\* The tokens on record anywhere: watched, tracked or resolved.
KnownTokens == DOMAIN subscriptions \cup DOMAIN active_subscriptions \cup DOMAIN results

\* The tokens of path p on record.
KnownTokensOf(p) == { h \in KnownTokens : h[1] = p }

\* C34: for every path the child indices for which entries have been
\* produced are exactly 0..last_index, each (child index, script type) pair
\* of that range is on record under one token of its own; and a step that
\* advances last_index produces only tokens that were not on record before,
\* exactly those of the new child indices: no pair is produced a second time.
C34_GeneratedOnce ==
    [][ \A p \in PathNumbers :
          LET types == 1..Len(bip32_paths[p].script_types)
              old == bip32_paths[p].last_index
              new == bip32_paths'[p].last_index
              fresh == { TokenOf(p, i, n) : i \in (old + 1)..new, n \in types }
          IN  /\ GeneratedIndices(p) = 0..old
              /\ KnownTokensOf(p) = { TokenOf(p, i, n) : i \in 0..old, n \in types }
              /\ Cardinality(KnownTokensOf(p)) = (old + 1) * Len(bip32_paths[p].script_types)
              /\ fresh \cap KnownTokens = {}
              /\ { h \in KnownTokens' : h[1] = p } = KnownTokensOf(p) \cup fresh
              /\ \A h \in fresh :
                    /\ h \in DOMAIN subscriptions'
                    /\ subscriptions'[h].parent_path = p
                    /\ TokenOf(p, subscriptions'[h].parent_index,
                                CHOOSE n \in types :
                                   bip32_paths[p].script_types[n] = subscriptions'[h].script_type) = h
      ]_vars

\* C34 witness: a two-script-type path has produced child indices 0, 1 and
\* 2, six tokens in all, some resolved and some still watched.
C34_Witness ==
    \E p \in PathNumbers :
        /\ Len(bip32_paths[p].script_types) = 2
        /\ bip32_paths[p].last_index = 2
        /\ Cardinality(KnownTokensOf(p)) = 6
        /\ KnownTokensOf(p) \cap DOMAIN results # {}
        /\ KnownTokensOf(p) \cap DOMAIN subscriptions # {}

\* A step in which the loop takes entries from the enumerator.
EnumerationStep ==
    /\ Len(bip32_paths') = Len(bip32_paths)
    /\ \/ pending_subscriptions' # pending_subscriptions
       \/ \E p \in PathNumbers : bip32_paths'[p].last_index # bip32_paths[p].last_index

\* C35: a step in which create_new_entries yields entries changes, of the
\* enumerator and the results, only the pending pool and the last_index of
\* paths, and removes nothing from the active set; a completion of token h
\* changes only the result record of h, the presence of h in the active set,
\* the event, and highest_used_index and result_count of the path that owns
\* the entry, never the pending pool, a last_index, the entry count or
\* another path; a completion of an explicit entry changes no path.
C35_FrameConditions ==
    [][ /\ EnumerationStep
            => /\ \A p \in PathNumbers :
                    bip32_paths'[p] =
                      [ bip32_paths[p] EXCEPT !.last_index = bip32_paths'[p].last_index ]
               /\ results' = results
               /\ DOMAIN active_subscriptions \subseteq DOMAIN active_subscriptions'
        /\ \A h \in DOMAIN subscriptions \ DOMAIN subscriptions' :
              LET entry == subscriptions[h]
              IN  /\ pending_subscriptions' = pending_subscriptions
                  /\ scan_entry_count' = scan_entry_count
                  /\ << pc, should_exit, handler_scanner >>' = << pc, should_exit, handler_scanner >>
                  /\ DOMAIN results' = DOMAIN results \cup {h}
                  /\ \A x \in DOMAIN results \ {h} : results'[x] = results[x]
                  /\ DOMAIN active_subscriptions \ {h} \subseteq DOMAIN active_subscriptions'
                  /\ DOMAIN active_subscriptions' \subseteq DOMAIN active_subscriptions
                  /\ \A x \in DOMAIN active_subscriptions' :
                        active_subscriptions'[x] = active_subscriptions[x]
                  /\ \A p \in PathNumbers :
                        IF entry.kind = "BIP32" /\ entry.parent_path = p
                        THEN bip32_paths'[p] =
                               [ bip32_paths[p] EXCEPT
                                   !.highest_used_index = bip32_paths'[p].highest_used_index,
                                   !.result_count = bip32_paths'[p].result_count ]
                        ELSE bip32_paths'[p] = bip32_paths[p]
                  /\ entry.kind = "EXPLICIT" => bip32_paths' = bip32_paths
      ]_vars

\* C35 witness: explicit and BIP32 completions have both been processed, one
\* of them with a non-empty history on a path that has generated beyond it,
\* while entries are still active and the event is set.
C35_Witness ==
    /\ pc = "wait" /\ event
    /\ ActiveCount > 0
    /\ \E h \in DOMAIN results : results[h].bip32_subpath_index = -1
    /\ \E p \in PathNumbers :
          /\ bip32_paths[p].highest_used_index >= 0
          /\ bip32_paths[p].result_count > 0
          /\ bip32_paths[p].last_index > bip32_paths[p].highest_used_index

====
